---- MODULE Spec2Model ----
(***************************************************************************)
(* Model of pkg/zerocopycodec: the length-prefixed, tag-delimited wire     *)
(* format for Data (int32 | string | list), its Encoder and its zero-copy  *)
(* Decoder.  A byte is a number in 0..255, a buffer is a sequence of       *)
(* bytes, and Go's 0-based index k is TLA+'s index k+1.                    *)
(***************************************************************************)
EXTENDS Integers, Sequences, FiniteSets, TLC

VARIABLES intBits, value, buf, encoded, stage, d, d2, pool, encoders, callers

\* The package-level encoder pool, the encoders there are and the
\* goroutines that use them.
poolVars == <<pool, encoders, callers>>

\* One Encode, one transmission and the Decode calls on it.
codecVars == <<intBits, value, buf, encoded, stage, d, d2>>

vars == <<codecVars, poolVars>>

(***************************************************************************)
(* Bounds of the model and constants of the program.                       *)
(***************************************************************************)

\* The values handed to Encode have at most MaxNodes nodes below the root.
MaxNodes == 3

\* The goroutines that use the encoder pool.
NumCallers == 2

\* The goroutines acquire encoders at most MaxAcquires times and call
\* Encode at most MaxCalls times, all of them together.
MaxAcquires == 2

MaxCalls == 2

\* The documented limits: at most 1000 elements in a list, at most
\* 1,000,000 bytes in a string.
MaxListLen == 1000

MaxStringLen == 1000000

TypeInt32 == 1

TypeString == 2

TypeArray == 3

MaxInt32 == 2147483647

MinInt32 == (-2147483647) - 1

Bytes == 0..255

(***************************************************************************)
(* Machine integers.  A uint32 is kept as its top bit and its low 31 bits, *)
(* [hi |-> 0..1, lo |-> 0..2^31-1], standing for hi * 2^31 + lo.  A Go int *)
(* is intBits wide.  On a 64-bit build every value from 2^31-1 up is kept  *)
(* as MaxInt32: buffers of the model are far shorter, so every comparison  *)
(* with a length or a cursor comes out as it does in the program.  On a    *)
(* 32-bit build int arithmetic wraps modulo 2^32.                          *)
(***************************************************************************)

\* binary.LittleEndian.Uint32(b): the first four bytes of b, least
\* significant first.
LittleEndianUint32(b) ==
    [hi |-> b[4] \div 128,
     lo |-> b[1] + 256 * b[2] + 65536 * b[3] + 16777216 * (b[4] % 128)]

\* The four bytes binary.LittleEndian.AppendUint32 / PutUint32 write for u.
LittleEndianBytes(u) ==
    << u.lo % 256,
       (u.lo \div 256) % 256,
       (u.lo \div 65536) % 256,
       (u.lo \div 16777216) + 128 * u.hi >>

\* uint32(v) for an int32 v: two's complement.
Uint32OfInt32(v) ==
    IF v >= 0 THEN [hi |-> 0, lo |-> v] ELSE [hi |-> 1, lo |-> v - MinInt32]

\* The conversion with the sign bit dropped.
Int32OfUint32Unsigned(u) == u.lo

\* int32(u) for a uint32 u: two's complement.
Int32OfUint32(u) ==
    IF u.hi = 1 THEN u.lo + MinInt32 ELSE u.lo

\* uint32(n) for a length n >= 0 of the model (n < 2^31).
Uint32OfLen(n) == [hi |-> 0, lo |-> n]

\* int(u) for a uint32 u on a build whose int is bits wide.
IntOfUint32(u, bits) ==
    IF bits = 32
    THEN Int32OfUint32(u)
    ELSE IF u.hi = 1 THEN MaxInt32 ELSE u.lo

\* a + b in Go's int, for a and b not both negative.
IntAdd(a, b, bits) ==
    IF a >= 0 /\ b >= 0 /\ a > MaxInt32 - b
    THEN IF bits = 32
         THEN (a + MinInt32) + (b + MinInt32)
         ELSE MaxInt32
    ELSE a + b

\* i < arrayLen for the loop counter i (a uint32 below 2^31 in the model).
Uint32Less(i, u) == u.hi = 1 \/ i < u.lo

(***************************************************************************)
(* Values.  A Go value of dynamic type int32, string or Data is a record   *)
(* [kind, n, s, items]: n is the number of an int32, s the bytes of a      *)
(* string, items the sequence of the elements of a list; the fields a kind *)
(* does not use are 0 and <<>>.                                            *)
(***************************************************************************)

Int32Value(n) == [kind |-> "int32", n |-> n, s |-> <<>>, items |-> <<>>]

StringValue(bytes) == [kind |-> "string", n |-> 0, s |-> bytes, items |-> <<>>]

DataValue(items) == [kind |-> "Data", n |-> 0, s |-> <<>>, items |-> items]

\* The nil interface value / nil Data.
Nil == [kind |-> "nil", n |-> 0, s |-> <<>>, items |-> <<>>]

\* A native Go slice ([]interface{}) nested in a Data.
SliceValue(items) == [kind |-> "slice", n |-> 0, s |-> <<>>, items |-> items]

\* A plain int in a Data: a dynamic type no case of the package's type
\* switches names.
IntValue(n) == [kind |-> "int", n |-> n, s |-> <<>>, items |-> <<>>]

(***************************************************************************)
(* Encoder.                                                                *)
(***************************************************************************)

\* NewEncoder: an empty buffer.
NewEncoder == <<>>

RECURSIVE encodeValue(_)
RECURSIVE encodeItems(_, _, _)

\* The mutant of encodeItems: the elements are appended last first.
encodeItemsReversed(items, lo, hi) ==
    IF lo > hi THEN <<>>
    ELSE IF lo = hi THEN encodeValue(items[lo])
    ELSE LET mid == (lo + hi) \div 2
         IN  encodeItems(items, mid + 1, hi) \o encodeItems(items, lo, mid)

\* The bytes `for _, item := range v { e.encodeValue(item) }` appends for
\* the elements lo..hi of items, in order (the range is halved so that the
\* evaluation of a long list stays shallow).
encodeItems(items, lo, hi) ==
    IF lo > hi THEN <<>>
    ELSE IF lo = hi THEN encodeValue(items[lo])
    ELSE LET mid == (lo + hi) \div 2
         IN  encodeItems(items, lo, mid) \o encodeItems(items, mid + 1, hi)

\* The bytes Encoder.encodeValue appends to e.buf for value x; a value of
\* any other dynamic type matches no case and appends nothing.
encodeValue(x) ==
    CASE x.kind = "int32" ->
           <<TypeInt32>> \o LittleEndianBytes(Uint32OfInt32(x.n))
      [] x.kind = "string" ->
           <<TypeString>> \o LittleEndianBytes(Uint32OfLen(Len(x.s))) \o x.s
      [] x.kind = "Data" ->
           <<TypeArray>> \o LittleEndianBytes(Uint32OfLen(Len(x.items)))
                         \o encodeItems(x.items, 1, Len(x.items))
      [] x.kind = "slice" ->
           <<TypeArray>> \o LittleEndianBytes(Uint32OfLen(Len(x.items)))
                         \o encodeItems(x.items, 1, Len(x.items))
      [] OTHER -> <<>>

\* The mutant of EncoderEncode: the header counts its own four bytes.
EncoderEncodeWholeLength(b, data) ==
    LET reset == SubSeq(b, 1, 0)
        body  == reset \o <<0, 0, 0, 0>> \o encodeValue(data)
    IN  LittleEndianBytes(Uint32OfLen(Len(body))) \o SubSeq(body, 5, Len(body))

\* The mutant of EncoderEncode: the buffer is not reset.
EncoderEncodeNoReset(b, data) ==
    LET body  == b \o <<0, 0, 0, 0>> \o encodeValue(data)
        totalLen == Len(body) - 4
    IN  LittleEndianBytes(Uint32OfLen(totalLen)) \o SubSeq(body, 5, Len(body))

\* Encoder.Encode(data) on an encoder whose buffer is b: the buffer is
\* reset, four header bytes are reserved, the value is appended and the
\* header is overwritten with the length of what follows it.
EncoderEncode(b, data) ==
    LET reset == SubSeq(b, 1, 0)
        body  == reset \o <<0, 0, 0, 0>> \o encodeValue(data)
        totalLen == Len(body) - 4
    IN  LittleEndianBytes(Uint32OfLen(totalLen)) \o SubSeq(body, 5, Len(body))

(***************************************************************************)
(* Decoder.  The Decoder struct and the position of its Decode call are    *)
(* one record:                                                             *)
(*   data, offset   the fields of Decoder                                  *)
(*   pc             "Decode": Decode is about to run; "decodeValue": a     *)
(*                  decodeValue call is about to run; "loop": the array    *)
(*                  loop of the innermost open decodeValue call is at its  *)
(*                  condition; "root": the outermost decodeValue call has  *)
(*                  returned to Decode; "done": Decode has returned;       *)
(*                  "panic": a run-time panic has unwound Decode           *)
(*   frames         the open decodeValue calls that are in their array     *)
(*                  loop, outermost first: arrayLen, i and result          *)
(*   valueType      the tag the latest decodeValue call has read           *)
(*   value          what the outermost decodeValue call returned           *)
(*   ret, err       what Decode returned                                   *)
(*   views          the strings made so far, in the order made: off and    *)
(*                  len are the part of the buffer the string is, shared   *)
(*                  tells that the string is that memory and not a copy    *)
(*   nodes          the tags read so far                                   *)
(***************************************************************************)

NoTag == -1

NoErr == "nil"

ErrTooShort == "invalid data: too short"

ErrLengthMismatch == "invalid data: length mismatch"

ErrUnexpectedEnd == "unexpected end of data"

ErrInt32 == "insufficient data for int32"

ErrStringLength == "insufficient data for string length"

ErrStringContent == "insufficient data for string content"

ErrArrayLength == "insufficient data for array length"

ErrUnknownType == "unknown value type: %d"

ErrRoot == "root element must be an array"

PanicIndex == "panic: index out of range"

PanicSlice == "panic: slice bounds out of range"

PanicMakeslice == "panic: makeslice: cap out of range"

\* NewDecoder(data): the decoder works on the caller's bytes, cursor at 0.
NewDecoder(data) ==
    [data |-> data, offset |-> 0, pc |-> "Decode", frames |-> <<>>,
     valueType |-> NoTag, value |-> Nil, ret |-> Nil, err |-> NoErr,
     views |-> <<>>, nodes |-> 0]

\* `return nil, err` out of every open call and out of Decode.
Fail(dd, e) ==
    [dd EXCEPT !.pc = "done", !.frames = <<>>, !.value = Nil,
               !.ret = Nil, !.err = e, !.views = <<>>]

\* A run-time panic unwinds every open call; Decode returns nothing.
Panic(dd, what) ==
    [dd EXCEPT !.pc = "panic", !.frames = <<>>, !.value = Nil,
               !.ret = Nil, !.err = what, !.views = <<>>]

\* The mutant of TooShort: one byte less is asked for.
TooShortOffByOne(data) == Len(data) < 3

\* `len(d.data) < 4`
TooShort(data) == Len(data) < 4

\* The mutant of LengthMismatch: only a header that declares more bytes
\* than are present is refused.
LengthMismatchOnlyShort(data, bits) ==
    Len(data) < IntAdd(IntOfUint32(LittleEndianUint32(SubSeq(data, 1, 4)), bits),
                       4, bits)

\* `len(d.data) != int(totalLen)+4`, totalLen read from d.data[0:4].
LengthMismatch(data, bits) ==
    Len(data) # IntAdd(IntOfUint32(LittleEndianUint32(SubSeq(data, 1, 4)), bits),
                       4, bits)

\* The mutant of DecodeEntry: the cursor is moved on by four bytes and not
\* set to 4.
DecodeEntryKeepsOffset(dd, bits) ==
    IF TooShort(dd.data) THEN Fail(dd, ErrTooShort)
    ELSE IF Len(dd.data) < 4 THEN Panic(dd, PanicSlice)
    ELSE IF LengthMismatch(dd.data, bits) THEN Fail(dd, ErrLengthMismatch)
    ELSE [dd EXCEPT !.offset = @ + 4, !.pc = "decodeValue",
                    !.views = <<>>, !.nodes = 0]

\* Decoder.Decode up to its call of decodeValue.  d.data[0:4] panics when
\* the buffer holds fewer than four bytes.
DecodeEntry(dd, bits) ==
    IF TooShort(dd.data) THEN Fail(dd, ErrTooShort)
    ELSE IF Len(dd.data) < 4 THEN Panic(dd, PanicSlice)
    ELSE IF LengthMismatch(dd.data, bits) THEN Fail(dd, ErrLengthMismatch)
    ELSE [dd EXCEPT !.offset = 4, !.pc = "decodeValue",
                    !.views = <<>>, !.nodes = 0]

\* A decodeValue call returns x to its caller: to Decode, or to the array
\* loop of the enclosing call, which appends it to result and counts it.
ReturnValue(dd, x) ==
    IF dd.frames = <<>>
    THEN [dd EXCEPT !.value = x, !.pc = "root"]
    ELSE LET top == Len(dd.frames)
         IN  [dd EXCEPT !.frames[top].result = Append(@, x),
                        !.frames[top].i = @ + 1,
                        !.pc = "loop"]

\* `d.offset >= len(d.data)`
AtEnd(dd) == dd.offset >= Len(dd.data)

\* The mutant of Insufficient: the check is off by one.
InsufficientOffByOne(dd, n) == dd.offset + n > Len(dd.data) + 1

\* `d.offset+4 > len(d.data)`, with n for 4.
Insufficient(dd, n) == dd.offset + n > Len(dd.data)

\* binary.LittleEndian.Uint32(d.data[d.offset:]) can be evaluated: the
\* slice expression and the four index expressions are in range.
CanReadUint32(dd) == dd.offset + 4 <= Len(dd.data)

\* binary.LittleEndian.Uint32(d.data[d.offset:])
ReadUint32(dd) ==
    LittleEndianUint32(SubSeq(dd.data, dd.offset + 1, dd.offset + 4))

\* `d.offset+int(strLen)`
StringEnd(dd, strLen, bits) ==
    IntAdd(dd.offset, IntOfUint32(strLen, bits), bits)

\* make(Data, 0, arrayLen) panics when arrayLen is not representable as
\* an int.  (An allocation the machine cannot satisfy is not modelled.)
MakePanics(arrayLen, bits) == bits = 32 /\ arrayLen.hi = 1

\* case TypeInt32
decodeInt32(dd, bits) ==
    IF Insufficient(dd, 4) THEN Fail(dd, ErrInt32)
    ELSE IF ~CanReadUint32(dd) THEN Panic(dd, PanicIndex)
    ELSE ReturnValue([dd EXCEPT !.offset = @ + 4],
                     Int32Value(Int32OfUint32(ReadUint32(dd))))

\* The mutant of decodeString: the string is a copy of the bytes.
decodeStringCopied(dd, bits) ==
    IF Insufficient(dd, 4) THEN Fail(dd, ErrStringLength)
    ELSE IF ~CanReadUint32(dd) THEN Panic(dd, PanicIndex)
    ELSE LET strLen == ReadUint32(dd)
             d1     == [dd EXCEPT !.offset = @ + 4]
             end    == StringEnd(d1, strLen, bits)
         IN  IF end > Len(d1.data) THEN Fail(d1, ErrStringContent)
             ELSE IF end < d1.offset THEN Panic(d1, PanicSlice)
             ELSE ReturnValue([d1 EXCEPT
                                 !.offset = end,
                                 !.views = Append(@, [off |-> d1.offset,
                                                      len |-> end - d1.offset,
                                                      shared |-> FALSE])],
                              StringValue(SubSeq(d1.data, d1.offset + 1, end)))

\* case TypeString: the string is the bytes d.data[d.offset : d.offset +
\* int(strLen)] of the buffer, after the cursor has passed the length
\* field; the unsafe conversion makes it these bytes themselves.
decodeString(dd, bits) ==
    IF Insufficient(dd, 4) THEN Fail(dd, ErrStringLength)
    ELSE IF ~CanReadUint32(dd) THEN Panic(dd, PanicIndex)
    ELSE LET strLen == ReadUint32(dd)
             d1     == [dd EXCEPT !.offset = @ + 4]
             end    == StringEnd(d1, strLen, bits)
         IN  IF end > Len(d1.data) THEN Fail(d1, ErrStringContent)
             ELSE IF end < d1.offset THEN Panic(d1, PanicSlice)
             ELSE ReturnValue([d1 EXCEPT
                                 !.offset = end,
                                 !.views = Append(@, [off |-> d1.offset,
                                                      len |-> end - d1.offset,
                                                      shared |-> TRUE])],
                              StringValue(SubSeq(d1.data, d1.offset + 1, end)))

\* The mutant of decodeArray: a count of MaxListLen or more is refused.
decodeArrayExclusiveLimit(dd, bits) ==
    IF Insufficient(dd, 4) THEN Fail(dd, ErrArrayLength)
    ELSE IF ~CanReadUint32(dd) THEN Panic(dd, PanicIndex)
    ELSE LET arrayLen == ReadUint32(dd)
             d1       == [dd EXCEPT !.offset = @ + 4]
         IN  IF MakePanics(arrayLen, bits) THEN Panic(d1, PanicMakeslice)
             ELSE IF ~Uint32Less(MaxListLen - 1, arrayLen)
             THEN [d1 EXCEPT !.frames = Append(@, [arrayLen |-> arrayLen,
                                                   i |-> 0,
                                                   result |-> <<>>]),
                             !.pc = "loop"]
             ELSE Fail(d1, ErrArrayLength)

\* case TypeArray, up to the loop.
decodeArray(dd, bits) ==
    IF Insufficient(dd, 4) THEN Fail(dd, ErrArrayLength)
    ELSE IF ~CanReadUint32(dd) THEN Panic(dd, PanicIndex)
    ELSE LET arrayLen == ReadUint32(dd)
             d1       == [dd EXCEPT !.offset = @ + 4]
         IN  IF MakePanics(arrayLen, bits) THEN Panic(d1, PanicMakeslice)
             ELSE [d1 EXCEPT !.frames = Append(@, [arrayLen |-> arrayLen,
                                                   i |-> 0,
                                                   result |-> <<>>]),
                             !.pc = "loop"]

\* The mutant of dispatch: a tag the switch does not know is read as an
\* int32.
dispatchDefaultInt32(dd, bits) ==
    CASE dd.valueType = TypeString -> decodeString(dd, bits)
      [] dd.valueType = TypeArray  -> decodeArray(dd, bits)
      [] OTHER                     -> decodeInt32(dd, bits)

\* `switch valueType`
dispatch(dd, bits) ==
    CASE dd.valueType = TypeInt32  -> decodeInt32(dd, bits)
      [] dd.valueType = TypeString -> decodeString(dd, bits)
      [] dd.valueType = TypeArray  -> decodeArray(dd, bits)
      [] OTHER                     -> Fail(dd, ErrUnknownType)

\* The mutant of decodeValue: at the end of the data a nil value is
\* returned and no error.
decodeValueNoEndCheck(dd, bits) ==
    IF AtEnd(dd) THEN ReturnValue(dd, Nil)
    ELSE IF dd.offset + 1 > Len(dd.data) THEN Panic(dd, PanicIndex)
    ELSE dispatch([dd EXCEPT !.valueType = dd.data[dd.offset + 1],
                             !.offset = @ + 1,
                             !.nodes = @ + 1], bits)

\* One call of Decoder.decodeValue, up to its return or its array loop.
decodeValue(dd, bits) ==
    IF AtEnd(dd) THEN Fail(dd, ErrUnexpectedEnd)
    ELSE IF dd.offset + 1 > Len(dd.data) THEN Panic(dd, PanicIndex)
    ELSE dispatch([dd EXCEPT !.valueType = dd.data[dd.offset + 1],
                             !.offset = @ + 1,
                             !.nodes = @ + 1], bits)

\* The array loop of the innermost open call at its condition
\* `i < arrayLen`: the next element is decoded, or the call returns result.
arrayLoop(dd) ==
    LET top == Len(dd.frames)
        f   == dd.frames[top]
    IN  IF Uint32Less(f.i, f.arrayLen)
        THEN [dd EXCEPT !.pc = "decodeValue"]
        ELSE ReturnValue([dd EXCEPT !.frames = SubSeq(@, 1, top - 1)],
                         DataValue(f.result))

\* The mutant of DecodeRoot: the type assertion is skipped.
DecodeRootUnchecked(dd) ==
    [dd EXCEPT !.pc = "done", !.ret = dd.value, !.err = NoErr]

\* Decoder.Decode after decodeValue has returned a value: the root must be
\* a Data.
DecodeRoot(dd) ==
    IF dd.value.kind = "Data"
    THEN [dd EXCEPT !.pc = "done", !.ret = dd.value, !.err = NoErr]
    ELSE Fail(dd, ErrRoot)

\* One step of Decode from any position; a finished call stays as it is.
DecodeStep(dd, bits) ==
    CASE dd.pc = "Decode"      -> DecodeEntry(dd, bits)
      [] dd.pc = "decodeValue" -> decodeValue(dd, bits)
      [] dd.pc = "loop"        -> arrayLoop(dd)
      [] dd.pc = "root"        -> DecodeRoot(dd)
      [] OTHER                 -> dd

RECURSIVE DecodeSteps(_, _, _)

\* n steps of Decode (n is halved so that a long run stays shallow).
DecodeSteps(dd, bits, n) ==
    IF n = 0 \/ dd.pc \in {"done", "panic"} THEN dd
    ELSE IF n = 1 THEN DecodeStep(dd, bits)
    ELSE DecodeSteps(DecodeSteps(dd, bits, n \div 2), bits, n - (n \div 2))

\* Every decodeValue call takes at least one byte and every array loop
\* tests its condition once more than it has elements, so Decode returns
\* within this many steps.
StepBound(data) == 3 * Len(data) + 4

\* Decoder.Decode as one call.
DecoderDecode(dd, bits) == DecodeSteps(dd, bits, StepBound(dd.data))

(***************************************************************************)
(* The values handed to Encode.                                            *)
(***************************************************************************)

\* An int32 whose four bytes differ and whose sign bit is set
\* (0xFEFDFCFB), the empty string and a two-byte UTF-8 string.
Leaves ==
    { Int32Value(-16909061), StringValue(<<>>), StringValue(<<195, 169>>) }

RECURSIVE ValuesOfSize(_)
RECURSIVE ForestsOfSize(_)

\* The values of exactly m nodes: a leaf, or a Data around a sequence of
\* values of m - 1 nodes in all.
ValuesOfSize(m) ==
    IF m = 1 THEN Leaves \cup {DataValue(<<>>)}
    ELSE {DataValue(f) : f \in ForestsOfSize(m - 1)}

\* The sequences of values of exactly n nodes in all.
ForestsOfSize(n) ==
    IF n = 0 THEN {<<>>}
    ELSE UNION { { <<x>> \o f : x \in ValuesOfSize(m), f \in ForestsOfSize(n - m) }
                 : m \in 1..n }

\* Every Data of at most MaxNodes nodes below its root.
SmallValues ==
    { DataValue(f) : f \in UNION { ForestsOfSize(n) : n \in 0..MaxNodes } }

\* testData1 of the README's example program: ["foo", ["bar", 42]].
ExampleValue ==
    DataValue(<<StringValue(<<102, 111, 111>>),
                DataValue(<<StringValue(<<98, 97, 114>>), Int32Value(42)>>)>>)

\* Lists just below, at and just above the documented maximum length, at
\* the root and one level down (as in TestMaxListLength).
LimitLengths == (MaxListLen - 12)..(MaxListLen + 12)

Int32List(n) == DataValue([i \in 1..n |-> Int32Value(i - 1)])

\* A string of n bytes "a" (as in TestMaxStringLength).
RepeatString(n) == StringValue([i \in 1..n |-> 97])

LimitValues ==
    { Int32List(n) : n \in LimitLengths }
    \cup { DataValue(<<StringValue(<<104>>), Int32List(n)>>) : n \in LimitLengths }
    \cup { DataValue(<<RepeatString(MaxStringLen), Int32Value(42)>>) }

(***************************************************************************)
(* The program: a value is encoded, the bytes reach a decoder (as they     *)
(* are, or cut short, or with a byte changed, or with a byte added: the    *)
(* decoder takes any byte slice), and Decode runs on them.                 *)
(***************************************************************************)

\* The bytes a changed byte or an added byte may take: zero, the three
\* tags, and a byte that is no tag, no UTF-8 and has its top bit set.
WireBytes == {0, TypeInt32, TypeString, TypeArray, 255}

\* The header rewritten to the length of what follows it.
Resealed(bytes) ==
    IF Len(bytes) < 4 THEN bytes
    ELSE LittleEndianBytes(Uint32OfLen(Len(bytes) - 4))
         \o SubSeq(bytes, 5, Len(bytes))

NoDecoder == [NewDecoder(<<>>) EXCEPT !.pc = "none"]

\* The goroutines that use the pool.
Callers == 1..NumCallers

\* A goroutine that holds no encoder: pc is "idle" or "holding", enc is
\* the encoder held (its index in encoders), value is what its latest
\* Encode call on the encoder held was given, calls and acquires count
\* its Encode calls and its acquisitions, and last is the branch its
\* latest ReturnPooledEncoder call took.  out is the slice an Encode call
\* returned to it and it has kept: bytes is what the slice reads as, value
\* is what was encoded, and enc is the encoder whose buffer has the same
\* array (0 when no encoder has it).
NoOutput == [enc |-> 0, bytes |-> <<>>, value |-> Nil]

Idle == [pc |-> "idle", enc |-> 0, value |-> Nil, calls |-> 0,
         acquires |-> 0, last |-> "none", out |-> NoOutput]

InitWith(values) ==
    /\ intBits \in {32, 64}
    /\ value \in values
    /\ buf = NewEncoder
    /\ encoded = <<>>
    /\ stage = "encode"
    /\ d = NoDecoder
    /\ d2 = NoDecoder
    /\ pool = <<>>
    /\ encoders = <<>>
    /\ callers = [c \in Callers |-> Idle]

Init == InitWith(SmallValues \cup {ExampleValue})

InitLimits == InitWith(LimitValues)

\* encoded := Encode(value)
Encode ==
    /\ stage = "encode"
    /\ buf' = EncoderEncode(buf, value)
    /\ encoded' = buf'
    /\ stage' = "transmit"
    /\ UNCHANGED <<intBits, value, d, d2, poolVars>>

\* NewDecoder(encoded)
Deliver ==
    /\ stage = "transmit"
    /\ d' = NewDecoder(encoded)
    /\ stage' = "decode"
    /\ UNCHANGED <<intBits, value, buf, encoded, d2, poolVars>>

\* NewDecoder on a strict prefix of the encoded bytes, its header as it
\* was or rewritten to fit.
DeliverTruncated ==
    /\ stage = "transmit"
    /\ \E k \in 0..(Len(encoded) - 1), reseal \in BOOLEAN :
         LET cut == SubSeq(encoded, 1, k)
         IN  d' = NewDecoder(IF reseal THEN Resealed(cut) ELSE cut)
    /\ stage' = "decode"
    /\ UNCHANGED <<intBits, value, buf, encoded, d2, poolVars>>

\* NewDecoder on the encoded bytes with one byte changed.
DeliverOverwritten ==
    /\ stage = "transmit"
    /\ \E k \in 1..Len(encoded), b \in WireBytes :
         d' = NewDecoder([encoded EXCEPT ![k] = b])
    /\ stage' = "decode"
    /\ UNCHANGED <<intBits, value, buf, encoded, d2, poolVars>>

\* NewDecoder on the encoded bytes with one byte added at the end, the
\* header as it was or rewritten to fit.
DeliverAppended ==
    /\ stage = "transmit"
    /\ \E b \in WireBytes, reseal \in BOOLEAN :
         LET more == Append(encoded, b)
         IN  d' = NewDecoder(IF reseal THEN Resealed(more) ELSE more)
    /\ stage' = "decode"
    /\ UNCHANGED <<intBits, value, buf, encoded, d2, poolVars>>

\* Decode, from its entry to its call of decodeValue.
DecodeCall ==
    /\ stage = "decode"
    /\ d.pc = "Decode"
    /\ d' = DecodeEntry(d, intBits)
    /\ UNCHANGED <<intBits, value, buf, encoded, stage, d2, poolVars>>

\* One call of decodeValue.
DecodeValueCall ==
    /\ d.pc = "decodeValue"
    /\ d' = decodeValue(d, intBits)
    /\ UNCHANGED <<intBits, value, buf, encoded, stage, d2, poolVars>>

\* The array loop of the innermost open decodeValue call.
ArrayLoop ==
    /\ d.pc = "loop"
    /\ d' = arrayLoop(d)
    /\ UNCHANGED <<intBits, value, buf, encoded, stage, d2, poolVars>>

\* Decode, from the return of decodeValue to its own return.
DecodeReturn ==
    /\ d.pc = "root"
    /\ d' = DecodeRoot(d)
    /\ UNCHANGED <<intBits, value, buf, encoded, stage, d2, poolVars>>

\* Decode as one call.
DecodeWhole ==
    /\ stage = "decode"
    /\ d.pc = "Decode"
    /\ d' = DecoderDecode(d, intBits)
    /\ UNCHANGED <<intBits, value, buf, encoded, stage, d2, poolVars>>

Next ==
    \/ Encode
    \/ Deliver
    \/ DeliverTruncated
    \/ DeliverOverwritten
    \/ DeliverAppended
    \/ DecodeCall
    \/ DecodeValueCall
    \/ ArrayLoop
    \/ DecodeReturn

Spec == Init /\ [][Next]_vars

NextLimits ==
    \/ Encode
    \/ Deliver
    \/ DecodeWhole

\* The same program on values at the documented limits, Decode taken as
\* one call.
SpecLimits == InitLimits /\ [][NextLimits]_vars

\* What a Data may hold, interface{} being any Go value: the three kinds
\* of the wire format, nil, a plain int, and Data and native slices of
\* these.
AnyLeaves ==
    {Int32Value(-16909061), Int32Value(5), StringValue(<<104>>), Nil,
     IntValue(5)}

AnyItems ==
    AnyLeaves
    \cup { DataValue(<<x>>) : x \in AnyLeaves }
    \cup { SliceValue(<<x>>) : x \in AnyLeaves }
    \cup { DataValue(<<>>), SliceValue(<<>>) }

\* Every Data of at most two such elements.
AnyValues ==
    { DataValue(<<>>) }
    \cup { DataValue(<<x>>) : x \in AnyItems }
    \cup { DataValue(<<x, y>>) : x \in AnyItems, y \in AnyItems }

InitAny == InitWith(AnyValues)

\* The same program on every kind of Go value a Data can hold, Decode
\* taken as one call.
SpecAny == InitAny /\ [][NextLimits]_vars

\* Every Data of fewer than MaxNodes nodes below its root, and the
\* README's example.
InitAgain ==
    InitWith({ DataValue(f) :
                 f \in UNION { ForestsOfSize(n) : n \in 0..(MaxNodes - 1) } }
             \cup {ExampleValue})

\* NewDecoder on the encoded bytes with the count of the root list set to
\* 2^32 - 1.
DeliverHugeCount ==
    /\ stage = "transmit"
    /\ Len(encoded) >= 9
    /\ d' = NewDecoder([k \in 1..Len(encoded) |->
                          IF k \in 6..9 THEN 255 ELSE encoded[k]])
    /\ stage' = "decode"
    /\ UNCHANGED <<intBits, value, buf, encoded, d2, poolVars>>

NextFair ==
    \/ Encode
    \/ Deliver
    \/ DeliverOverwritten
    \/ DeliverHugeCount
    \/ DecodeCall
    \/ DecodeValueCall
    \/ ArrayLoop
    \/ DecodeReturn

\* The program run to its end: one goroutine makes the calls one after
\* the other and nothing makes it wait, so a call that can take a step
\* takes it.
SpecFair == InitAgain /\ [][NextFair]_vars /\ WF_vars(NextFair)

(***************************************************************************)
(* Further Decode calls on the same buffer: d2 is a second Decoder over    *)
(* the buffer of d, whose Decode runs between the steps of d's, or it is   *)
(* the Decoder d itself, as the first call left it, in a second call.      *)
(***************************************************************************)

\* The Decoder dd at the entry of another Decode call: its fields are as
\* the last call left them, the call's own variables are new.
Recall(dd) ==
    [dd EXCEPT !.pc = "Decode", !.frames = <<>>, !.valueType = NoTag,
               !.value = Nil, !.ret = Nil, !.err = NoErr,
               !.views = <<>>, !.nodes = 0]

\* decoder2 := NewDecoder(data), over the buffer d has.
NewDecoder2 ==
    /\ stage = "decode"
    /\ d2.pc = "none"
    /\ d2' = NewDecoder(d.data)
    /\ UNCHANGED <<intBits, value, buf, encoded, stage, d, poolVars>>

\* decoder.Decode() once more, after it has returned.
DecodeAgain ==
    /\ stage = "decode"
    /\ d.pc = "done"
    /\ d2.pc = "none"
    /\ d2' = Recall(d)
    /\ stage' = "again"
    /\ UNCHANGED <<intBits, value, buf, encoded, d, poolVars>>

\* One step of the other Decode call.
SecondDecodeStep ==
    /\ d2.pc \in {"Decode", "decodeValue", "loop", "root"}
    /\ d2' = DecodeStep(d2, intBits)
    /\ UNCHANGED <<intBits, value, buf, encoded, stage, d, poolVars>>

NextAgain ==
    \/ Encode
    \/ Deliver
    \/ DeliverTruncated
    \/ DeliverOverwritten
    \/ DeliverAppended
    \/ DecodeCall
    \/ DecodeValueCall
    \/ ArrayLoop
    \/ DecodeReturn
    \/ NewDecoder2
    \/ DecodeAgain
    \/ SecondDecodeStep

\* The program with two Decode calls on one buffer.
SpecAgain == InitAgain /\ [][NextAgain]_vars

(***************************************************************************)
(* The strings Decode returns and the buffer.  A string that decodeValue   *)
(* made with the unsafe conversion is a part of the buffer: what it reads  *)
(* as is what that part of the buffer holds at the time of reading.        *)
(***************************************************************************)

RECURSIVE Reread(_, _, _, _)
RECURSIVE RereadItems(_, _, _, _, _)

\* The tree x as it reads when the buffer holds data, the strings of x
\* being the views k, k+1, ... in the order decodeValue made them; next is
\* the view after the last one of x.
Reread(x, views, data, k) ==
    CASE x.kind = "string" ->
           [x    |-> IF views[k].shared
                     THEN StringValue(SubSeq(data, views[k].off + 1,
                                             views[k].off + views[k].len))
                     ELSE x,
            next |-> k + 1]
      [] x.kind = "Data" ->
           LET r == RereadItems(x.items, views, data, k, 1)
           IN  [x |-> DataValue(r.items), next |-> r.next]
      [] OTHER -> [x |-> x, next |-> k]

\* The same for the elements i, i+1, ... of items.
RereadItems(items, views, data, k, i) ==
    IF i > Len(items) THEN [items |-> <<>>, next |-> k]
    ELSE LET head == Reread(items[i], views, data, k)
             rest == RereadItems(items, views, data, head.next, i + 1)
         IN  [items |-> <<head.x>> \o rest.items, next |-> rest.next]

\* The bytes the holder of the buffer writes into it: an "X".
OverwriteBytes == {88}

\* encoded[k] = 'X' by the holder of the buffer, after Decode has
\* returned a tree: the buffer changes, and with it what the strings that
\* are parts of it read as.
OverwriteBuffer ==
    /\ stage = "decode"
    /\ d.pc = "done"
    /\ d.err = NoErr
    /\ \E k \in 1..Len(d.data), b \in OverwriteBytes :
         LET data == [d.data EXCEPT ![k] = b]
         IN  d' = [d EXCEPT !.data = data,
                            !.ret = Reread(d.ret, d.views, data, 1).x]
    /\ stage' = "overwritten"
    /\ UNCHANGED <<intBits, value, buf, encoded, d2, poolVars>>

NextViews ==
    \/ Encode
    \/ Deliver
    \/ DeliverTruncated
    \/ DeliverOverwritten
    \/ DeliverAppended
    \/ DecodeWhole
    \/ OverwriteBuffer

\* The program with a buffer that is written to after Decode.
SpecViews == Init /\ [][NextViews]_vars

(***************************************************************************)
(* The encoder pool.  encoderPool is a buffered channel of *Encoder: pool  *)
(* is what the channel holds, oldest first.  An *Encoder is its index in   *)
(* encoders, where the encoder's buffer and the capacity of the buffer are *)
(* kept.  A send, a receive and a select on the channel are atomic.        *)
(***************************************************************************)

\* cap(encoderPool)
PoolSlots == 10

\* The capacity GetPooledEncoder gives a new encoder.
DefaultCap == 1024

\* 64*1024 in ReturnPooledEncoder.
PoolCeiling == 65536

\* The capacities the goroutines give the encoders they make themselves.
InitialCaps == {16, PoolCeiling, PoolCeiling + 1}

\* The values the goroutines encode: a longer and a shorter one.
PoolValues == {ExampleValue, DataValue(<<>>)}

\* The encoder NewEncoder(initialCap) makes.
MakeEncoder(initialCap) == [buf |-> NewEncoder, cap |-> initialCap]

\* The capacities the buffer may have once it holds n bytes: append keeps
\* the array when the bytes fit and moves to a larger one, whose size the
\* run-time system chooses, when they do not.
GrownCaps(c, n) == IF n <= c THEN {c} ELSE {n, 2 * n}

\* The mutant of Receive: the encoder received stays in the channel.
ReceiveKeeps(ch) == [got |-> Head(ch), rest |-> ch]

\* `encoder := <-encoderPool` on a channel that holds something.
Receive(ch) == [got |-> Head(ch), rest |-> Tail(ch)]

\* The mutant of Send: the channel takes the encoder whatever it holds.
SendUnbounded(ch, e) == [sent |-> TRUE, rest |-> Append(ch, e)]

\* `select { case encoderPool <- encoder: default: }`
Send(ch, e) ==
    IF Len(ch) < PoolSlots THEN [sent |-> TRUE, rest |-> Append(ch, e)]
    ELSE [sent |-> FALSE, rest |-> ch]

\* An encoder nothing refers to any more, left to the garbage collector.
Collected == [buf |-> <<>>, cap |-> 0]

\* The condition under which ReturnPooledEncoder offers e to the pool.
Poolable(e) == e.cap < PoolCeiling

\* The pool as earlier use of the package can have left it: k encoders
\* that GetPooledEncoder made and that were used and returned.
UsedPool(k) ==
    [pool     |-> [i \in 1..k |-> i],
     encoders |-> [i \in 1..k |->
                     [buf |-> EncoderEncode(NewEncoder, ExampleValue),
                      cap |-> DefaultCap]]]

InitPool ==
    /\ intBits = 64
    /\ value = DataValue(<<>>)
    /\ buf = NewEncoder
    /\ encoded = <<>>
    /\ stage = "pool"
    /\ d = NoDecoder
    /\ d2 = NoDecoder
    /\ \E k \in {0, PoolSlots - 1, PoolSlots} :
         /\ pool = UsedPool(k).pool
         /\ encoders = UsedPool(k).encoders
    /\ callers = [c \in Callers |-> Idle]

RECURSIVE Total(_, _)

\* The acquisitions (field "acquires") or Encode calls (field "calls") of
\* the goroutines 1..c together.
Total(field, c) ==
    IF c = 0 THEN 0
    ELSE Total(field, c - 1)
         + (IF field = "acquires" THEN callers[c].acquires
                                  ELSE callers[c].calls)

\* The goroutine c now holds encoder e.
Holding(c, e) ==
    [callers EXCEPT ![c] = [pc |-> "holding", enc |-> e, value |-> Nil,
                            calls |-> @.calls,
                            acquires |-> @.acquires + 1,
                            last |-> "none", out |-> @.out]]

\* encoder := GetPooledEncoder()
GetPooledEncoder(c) ==
    /\ callers[c].pc = "idle"
    /\ Total("acquires", NumCallers) < MaxAcquires
    /\ IF pool # <<>>
       THEN /\ pool' = Receive(pool).rest
            /\ callers' = Holding(c, Receive(pool).got)
            /\ UNCHANGED encoders
       ELSE /\ encoders' = Append(encoders, MakeEncoder(DefaultCap))
            /\ callers' = Holding(c, Len(encoders) + 1)
            /\ UNCHANGED pool
    /\ UNCHANGED codecVars

\* encoder := NewEncoder(initialCap)
NewEncoderCall(c) ==
    /\ callers[c].pc = "idle"
    /\ Total("acquires", NumCallers) < MaxAcquires
    /\ \E initialCap \in InitialCaps :
         encoders' = Append(encoders, MakeEncoder(initialCap))
    /\ callers' = Holding(c, Len(encoders) + 1)
    /\ UNCHANGED <<pool, codecVars>>

\* The bytes old of an array read after new has been written from the
\* start of the array.
Overlay(new, old) ==
    [i \in 1..Len(old) |-> IF i <= Len(new) THEN new[i] ELSE old[i]]

\* The slice o a goroutine has kept, after Encode has left new in the
\* buffer of encoder e: the slice is changed when it has the array of that
\* buffer and the buffer stayed in its array, and it is left alone with
\* the old array when append moved the buffer to a larger one.
AfterEncode(o, e, new, moved) ==
    IF o.enc # e THEN o
    ELSE IF moved THEN [o EXCEPT !.enc = 0]
    ELSE [o EXCEPT !.bytes = Overlay(new, @)]

\* Encode(v) on the encoder the goroutine c holds; keep tells whether c
\* keeps the slice Encode returns, which is e.buf itself.
EncodeBy(c, keep) ==
    /\ \E v \in PoolValues :
         LET e   == callers[c].enc
             new == EncoderEncode(encoders[e].buf, v)
         IN  \E grown \in GrownCaps(encoders[e].cap, Len(new)) :
                /\ encoders' = [encoders EXCEPT
                                  ![e] = [buf |-> new, cap |-> grown]]
                /\ callers' =
                     [k \in Callers |->
                        IF k = c
                        THEN [callers[c] EXCEPT
                                !.value = v,
                                !.calls = @ + 1,
                                !.out = IF keep
                                        THEN [enc |-> e, bytes |-> new,
                                              value |-> v]
                                        ELSE NoOutput]
                        ELSE [callers[k] EXCEPT
                                !.out = AfterEncode(@, e, new,
                                                    grown # encoders[e].cap)]]
    /\ UNCHANGED <<pool, codecVars>>

\* encoder.Encode(v) by the goroutine that holds the encoder, the result
\* not kept.
EncoderCall(c) ==
    /\ callers[c].pc = "holding"
    /\ Total("calls", NumCallers) < MaxCalls
    /\ EncodeBy(c, FALSE)

\* encoded := encoder.Encode(v) by the goroutine that holds the encoder.
EncoderCallKept(c) ==
    /\ callers[c].pc = "holding"
    /\ Total("calls", NumCallers) < MaxCalls
    /\ EncodeBy(c, TRUE)

\* The goroutine reads the slice it has kept, after it has returned the
\* encoder, and lets go of it.
UseOutput(c) ==
    /\ callers[c].pc = "idle"
    /\ callers[c].out # NoOutput
    /\ callers' = [callers EXCEPT ![c].out = NoOutput]
    /\ UNCHANGED <<pool, encoders, codecVars>>

\* ReturnPooledEncoder(encoder) by the goroutine that holds the encoder.
ReturnPooledEncoder(c) ==
    /\ callers[c].pc = "holding"
    /\ LET e    == callers[c].enc
           sent == Poolable(encoders[e]) /\ Send(pool, e).sent
       IN  /\ pool' = IF Poolable(encoders[e]) THEN Send(pool, e).rest
                      ELSE pool
           /\ encoders' = IF sent THEN encoders
                          ELSE [encoders EXCEPT ![e] = Collected]
           /\ callers' = [callers EXCEPT
                            ![c].pc = "idle", ![c].enc = 0,
                            ![c].value = Nil,
                            ![c].last =
                               IF sent THEN "pooled"
                               ELSE IF Poolable(encoders[e]) THEN "full"
                               ELSE "large"]
    /\ UNCHANGED codecVars

NextPool ==
    \E c \in Callers :
       \/ GetPooledEncoder(c)
       \/ NewEncoderCall(c)
       \/ EncoderCall(c)
       \/ ReturnPooledEncoder(c)

\* Goroutines that take encoders from the pool or make them, encode with
\* them and give them to the pool.
SpecPool == InitPool /\ [][NextPool]_vars

NextPattern ==
    \E c \in Callers :
       \/ GetPooledEncoder(c)
       \/ EncoderCallKept(c)
       \/ ReturnPooledEncoder(c)
       \/ UseOutput(c)

\* Goroutines that follow the README's pattern: GetPooledEncoder, Encode,
\* ReturnPooledEncoder, and then the use of what Encode returned.
SpecPattern == InitPool /\ [][NextPattern]_vars

(***************************************************************************)
(* Equality of values, as the package's DeepEqual computes it.             *)
(***************************************************************************)

RECURSIVE DeepEqual(_, _)
RECURSIVE valueEqual(_, _)

\* valueEqual(a, b): the switch on a's dynamic type; any type other than
\* int32, string and Data compares unequal.
valueEqual(a, b) ==
    CASE a.kind = "int32"  -> b.kind = "int32" /\ a.n = b.n
      [] a.kind = "string" -> b.kind = "string" /\ a.s = b.s
      [] a.kind = "Data"   -> b.kind = "Data" /\ DeepEqual(a.items, b.items)
      [] OTHER             -> FALSE

\* DeepEqual(a, b) on the element sequences of two Data.
DeepEqual(a, b) ==
    /\ Len(a) = Len(b)
    /\ \A i \in 1..Len(a) : valueEqual(a[i], b[i])

(***************************************************************************)
(* What the claims speak of.                                               *)
(***************************************************************************)

Continuation(b) == b \in 128..191

RECURSIVE ValidUTF8From(_, _)

\* The bytes of s from index i on are well-formed UTF-8 (RFC 3629: no
\* overlong form, no surrogate, nothing above U+10FFFF).
ValidUTF8From(s, i) ==
    IF i > Len(s) THEN TRUE
    ELSE LET b == s[i]
             has(k) == i + k <= Len(s)
         IN  CASE b < 128 -> ValidUTF8From(s, i + 1)
               [] b \in 194..223 ->
                    has(1) /\ Continuation(s[i + 1]) /\ ValidUTF8From(s, i + 2)
               [] b \in 224..239 ->
                    /\ has(2)
                    /\ s[i + 1] \in (IF b = 224 THEN 160..191
                                     ELSE IF b = 237 THEN 128..159 ELSE 128..191)
                    /\ Continuation(s[i + 2])
                    /\ ValidUTF8From(s, i + 3)
               [] b \in 240..244 ->
                    /\ has(3)
                    /\ s[i + 1] \in (IF b = 240 THEN 144..191
                                     ELSE IF b = 244 THEN 128..143 ELSE 128..191)
                    /\ Continuation(s[i + 2])
                    /\ Continuation(s[i + 3])
                    /\ ValidUTF8From(s, i + 4)
               [] OTHER -> FALSE

ValidUTF8(s) == ValidUTF8From(s, 1)

RECURSIVE WithinLimits(_)

\* No list of x has more than MaxListLen elements and no string of x more
\* than MaxStringLen bytes, at any depth.
WithinLimits(x) ==
    CASE x.kind = "string" -> Len(x.s) <= MaxStringLen
      [] x.kind = "Data"   -> /\ Len(x.items) <= MaxListLen
                              /\ \A i \in 1..Len(x.items) : WithinLimits(x.items[i])
      [] OTHER             -> TRUE

RECURSIVE StringsValid(_)

\* Every string of x is valid UTF-8.
StringsValid(x) ==
    CASE x.kind = "string" -> ValidUTF8(x.s)
      [] x.kind = "Data"   -> \A i \in 1..Len(x.items) : StringsValid(x.items[i])
      [] OTHER             -> TRUE

\* Decode has returned.
Returned == d.pc = "done"

\* Decode has returned a value and no error.
Succeeded == d.pc = "done" /\ d.err = NoErr

\* p is a strict prefix of s.
IsStrictPrefix(p, s) == Len(p) < Len(s) /\ p = SubSeq(s, 1, Len(p))

\* The header of data declares exactly the bytes that follow it.
HeaderFits(data) ==
    /\ Len(data) >= 4
    /\ data[4] < 128
    /\ data[1] + 256 * data[2] + 65536 * data[3] + 16777216 * data[4]
         = Len(data) - 4

\* The error kinds of the design, for the errors Decode returns.
ErrKind(e) ==
    CASE e \in {ErrTooShort, ErrUnexpectedEnd, ErrInt32, ErrStringLength,
                ErrStringContent, ErrArrayLength} -> "Truncated"
      [] e = ErrLengthMismatch -> "LengthMismatch"
      [] e = ErrUnknownType    -> "UnknownTag"
      [] e = ErrRoot           -> "RootNotList"
      [] OTHER                 -> "none"

----------------------------------------------------------------------------

\* C1: for every value within the limits whose strings are valid UTF-8,
\* Decode on the bytes Encode returned succeeds and returns a value equal
\* to the one encoded: equal under DeepEqual, and the same elements in the
\* same order with the same string bytes at every level.
RoundTrip ==
    (stage = "decode" /\ d.data = encoded
       /\ WithinLimits(value) /\ StringsValid(value))
    => /\ d.pc # "panic"
       /\ Returned => /\ d.err = NoErr
                      /\ DeepEqual(value.items, d.ret.items)
                      /\ d.ret = value

RoundTripWitness ==
    /\ Succeeded
    /\ d.data = encoded
    /\ value = DataValue(<< StringValue(<<195, 169>>),
                            DataValue(<<Int32Value(-16909061)>>) >>)
    /\ d.ret = value

\* The header has been accepted and Decode has not panicked.
HeaderAccepted ==
    \/ d.pc \in {"decodeValue", "loop", "root"}
    \/ d.pc = "done" /\ d.err \notin {ErrTooShort, ErrLengthMismatch}

\* C2: on every byte sequence Decode reads only inside the buffer and
\* never panics, and once the header is accepted the cursor stays within
\* 4..len(data).
BoundsSafe ==
    /\ d.pc # "panic"
    /\ HeaderAccepted => (4 <= d.offset /\ d.offset <= Len(d.data))

\* What C2 says, on a build whose int is 64 bits wide.
BoundsSafe64 == (intBits = 64) => BoundsSafe

\* On a 64-bit build a string length with its top bit set is refused.
BoundsSafe64Witness ==
    /\ intBits = 64
    /\ Returned
    /\ d.err = ErrStringContent
    /\ d.data[d.offset] >= 128

\* C3: Decode returns an error, before it parses any node, for every input
\* of fewer than 4 bytes and for every input whose header differs from
\* len(input) - 4, whether it declares more bytes or fewer.
EnvelopeChecked ==
    (stage = "decode" /\ ~HeaderFits(d.data))
    => /\ d.pc \in {"Decode", "done"}
       /\ Returned => /\ d.err = (IF Len(d.data) < 4 THEN ErrTooShort
                                  ELSE ErrLengthMismatch)
                      /\ d.ret = Nil
                      /\ d.offset = 0
                      /\ d.valueType = NoTag

\* A header that declares fewer bytes than are present is refused.
EnvelopeCheckedWitness ==
    /\ Returned
    /\ d.err = ErrLengthMismatch
    /\ d.data = Append(encoded, 0)
    /\ Len(encoded) > 9

\* C4: whenever Decode succeeds, the root node ends at the last byte of
\* the input.
NoTrailingBytes == Succeeded => d.offset = Len(d.data)

\* C5 as claimed: Decode on a strict prefix of Encode(v) returns an error
\* of kind Truncated.
PrefixIsTruncated ==
    (Returned /\ IsStrictPrefix(d.data, encoded))
    => ErrKind(d.err) = "Truncated"

\* C5 as amended: Decode on a strict prefix of Encode(v) (the empty prefix
\* included) does not panic, reads no node and returns no value and an
\* error: "too short" (Truncated) for a prefix of fewer than 4 bytes,
\* "length mismatch" (LengthMismatch) for a longer one.
PrefixIsRefused ==
    (stage = "decode" /\ IsStrictPrefix(d.data, encoded))
    => /\ d.pc \in {"Decode", "done"}
       /\ Returned => /\ d.ret = Nil
                      /\ d.valueType = NoTag
                      /\ ErrKind(d.err) = (IF Len(d.data) < 4 THEN "Truncated"
                                           ELSE "LengthMismatch")

\* A prefix that holds the whole header and part of the root is refused.
PrefixIsRefusedWitness ==
    /\ Returned
    /\ IsStrictPrefix(d.data, encoded)
    /\ Len(d.data) = 7
    /\ d.err = ErrLengthMismatch

\* A message whose header fits and whose root node is a whole Int32 node
\* or a whole String node.
ScalarRoot(data) ==
    /\ HeaderFits(data)
    /\ Len(data) >= 9
    /\ \/ data[5] = TypeInt32 /\ Len(data) = 9
       \/ /\ data[5] = TypeString
          /\ data[9] < 128
          /\ data[6] + 256 * data[7] + 65536 * data[8] + 16777216 * data[9]
               = Len(data) - 9

\* C6: Decode returns an error for every well-formed message whose root is
\* an Int32 node or a String node, and a successful Decode returns a list.
RootMustBeList ==
    /\ Succeeded => d.ret.kind = "Data"
    /\ (stage = "decode" /\ ScalarRoot(d.data))
       => /\ d.pc # "panic"
          /\ Returned => (d.err = ErrRoot /\ d.ret = Nil)

RootMustBeListWitness ==
    /\ Returned
    /\ ScalarRoot(d.data)
    /\ d.data[5] = TypeString
    /\ d.err = ErrRoot

\* C7: Decode refuses a list whose count exceeds 1000 and a string whose
\* length exceeds 1,000,000, at any depth: what a successful Decode
\* returns is within the limits.
DecodeEnforcesLimits == Succeeded => WithinLimits(d.ret)

\* C8: Encode of a value that holds, at any depth, a list of more than
\* 1000 elements or a string of more than 1,000,000 bytes returns no bytes
\* and leaves the encoder's buffer reset.
EncodeEnforcesLimits ==
    (stage # "encode" /\ ~WithinLimits(value))
    => (encoded = <<>> /\ buf = <<>>)

\* C9: Decode refuses a string whose payload is not valid UTF-8: what a
\* successful Decode returns holds valid UTF-8 strings only.
DecodeRejectsInvalidUTF8 == Succeeded => StringsValid(d.ret)

\* C10: whenever the byte at a node position is none of the three tags,
\* Decode returns an error and no value, wherever the node sits.
UnknownTagRejected ==
    (d.valueType \notin {NoTag, TypeInt32, TypeString, TypeArray})
    => (Returned /\ d.err = ErrUnknownType /\ d.ret = Nil)

\* An unknown tag two levels below the root is refused.
UnknownTagRejectedWitness ==
    /\ Returned
    /\ d.err = ErrUnknownType
    /\ d.valueType = 255
    /\ d.offset = 15
    /\ d.data[10] = TypeArray

RECURSIVE AtALimit(_)

\* Some list of x has exactly MaxListLen elements or some string of x has
\* exactly MaxStringLen bytes.
AtALimit(x) ==
    CASE x.kind = "string" -> Len(x.s) = MaxStringLen
      [] x.kind = "Data"   -> \/ Len(x.items) = MaxListLen
                              \/ \E i \in 1..Len(x.items) : AtALimit(x.items[i])
      [] OTHER             -> FALSE

\* C11: a value that is within the limits and has a list of exactly 1000
\* elements or a string of exactly 1,000,000 bytes is encoded, and Decode
\* on the bytes returns no error and the same elements and the same
\* string: the limits are inclusive.
BoundaryAccepted ==
    (stage = "decode" /\ d.data = encoded
       /\ WithinLimits(value) /\ AtALimit(value))
    => /\ d.pc # "panic"
       /\ Len(encoded) > 4
       /\ Returned => (d.err = NoErr /\ d.ret = value)

\* The list of TestMaxListLength has come back from Decode.
BoundaryAcceptedWitness ==
    /\ Succeeded
    /\ value = Int32List(MaxListLen)
    /\ Len(d.ret.items) = MaxListLen
    /\ d.ret.items[MaxListLen] = Int32Value(MaxListLen - 1)

\* C12: the first four bytes of what Encode returns, read as a
\* little-endian unsigned integer, are the number of bytes after them, and
\* Decode on these bytes does not refuse them as too short or as of the
\* wrong length.
HeaderOfEncode ==
    stage # "encode"
    => /\ Len(encoded) >= 4
       /\ encoded[4] < 128
       /\ encoded[1] + 256 * encoded[2] + 65536 * encoded[3]
            + 16777216 * encoded[4] = Len(encoded) - 4
       /\ (stage = "decode" /\ d.data = encoded /\ Returned)
          => d.err \notin {ErrTooShort, ErrLengthMismatch}

\* Decode has taken an output of Encode whose header needs two bytes.
HeaderOfEncodeWitness ==
    /\ Succeeded
    /\ d.data = encoded
    /\ encoded[2] > 0
    /\ encoded[1] + 256 * encoded[2] = Len(encoded) - 4

RECURSIVE IsValue(_)

\* x is made of int32, string and Data only.
IsValue(x) ==
    CASE x.kind \in {"int32", "string"} -> TRUE
      [] x.kind = "Data" -> \A i \in 1..Len(x.items) : IsValue(x.items[i])
      [] OTHER -> FALSE

RECURSIVE NodeEnd(_, _, _)
RECURSIVE NodesEnd(_, _, _, _)

\* The wire format read as a grammar.  NodeEnd(bytes, i, x) is the number
\* of bytes up to the end of the node when bytes[i+1..] starts with the
\* node of x, and -1 when it does not.
NodeEnd(bytes, i, x) ==
    IF i + 5 > Len(bytes) THEN -1
    ELSE LET low == bytes[i + 2] + 256 * bytes[i + 3] + 65536 * bytes[i + 4]
             top == bytes[i + 5]
         IN  CASE x.kind = "int32" ->
                    IF /\ bytes[i + 1] = 1
                       /\ x.n = low + 16777216 * (IF top >= 128 THEN top - 256
                                                               ELSE top)
                    THEN i + 5 ELSE -1
               [] x.kind = "string" ->
                    IF /\ bytes[i + 1] = 2
                       /\ top < 128
                       /\ Len(x.s) = low + 16777216 * top
                       /\ i + 5 + Len(x.s) <= Len(bytes)
                       /\ SubSeq(bytes, i + 6, i + 5 + Len(x.s)) = x.s
                    THEN i + 5 + Len(x.s) ELSE -1
               [] x.kind = "Data" ->
                    IF /\ bytes[i + 1] = 3
                       /\ top < 128
                       /\ Len(x.items) = low + 16777216 * top
                    THEN NodesEnd(bytes, i + 5, x.items, 1) ELSE -1
               [] OTHER -> -1

\* The same for the nodes of items[k..], one after the other.
NodesEnd(bytes, i, items, k) ==
    IF k > Len(items) THEN i
    ELSE LET j == NodeEnd(bytes, i, items[k])
         IN  IF j < 0 THEN -1 ELSE NodesEnd(bytes, j, items, k + 1)

\* What Encode(["foo", ["bar", 42]]) is to return.
ExampleBytes ==
    <<31, 0, 0, 0,
      3, 2, 0, 0, 0,
      2, 3, 0, 0, 0, 102, 111, 111,
      3, 2, 0, 0, 0,
      2, 3, 0, 0, 0, 98, 97, 114,
      1, 42, 0, 0, 0>>

\* C13: after the four header bytes, what Encode returns is the node of
\* the value and nothing else: a tag byte 1, 2 or 3, then the int32 in
\* two's complement, or the string's length and bytes, or the list's count
\* and its elements' nodes in list order, all integers little-endian; and
\* ["foo", ["bar", 42]] gives the root list header with count 2, the node
\* of "foo" and the nested list's node.
NodeLayout ==
    (stage = "transmit" /\ IsValue(value))
    => /\ NodeEnd(encoded, 4, value) = Len(encoded)
       /\ value = ExampleValue => encoded = ExampleBytes

\* Encode has returned the bytes of ["foo", ["bar", 42]].
NodeLayoutWitness ==
    /\ stage = "transmit"
    /\ value = ExampleValue
    /\ encoded = ExampleBytes
    /\ SubSeq(encoded, 5, 9) = <<3, 2, 0, 0, 0>>

\* The encoders the goroutines hold.
Held == {callers[c].enc : c \in {c \in Callers : callers[c].pc = "holding"}}

\* The encoders in the pool.
Pooled == {pool[i] : i \in 1..Len(pool)}

\* C14: with goroutines that return only the encoder they hold, and once,
\* no encoder is held by two goroutines at the same time, whatever the
\* interleaving of their GetPooledEncoder and ReturnPooledEncoder calls;
\* nor is an encoder that is held in the pool, or in the pool twice.
PoolExclusive ==
    /\ \A c1, c2 \in Callers :
         (c1 # c2 /\ callers[c1].pc = "holding" /\ callers[c2].pc = "holding")
         => callers[c1].enc # callers[c2].enc
    /\ Held \cap Pooled = {}
    /\ Cardinality(Pooled) = Len(pool)

\* One goroutine has returned its encoder to the pool, the other has
\* received that very encoder from the pool and holds it.
PoolExclusiveWitness ==
    \E c1, c2 \in Callers :
       /\ callers[c1].pc = "idle"
       /\ callers[c1].last = "pooled"
       /\ callers[c1].acquires = 1
       /\ callers[c2].pc = "holding"
       /\ callers[c2].enc = 1
       /\ Len(encoders) = 1
       /\ pool = <<>>

\* The goroutine c returns its encoder in this step.
Returns(c) == callers[c].pc = "holding" /\ callers'[c].pc = "idle"

\* C15: the pool never holds more than its 10 slots; a goroutine that
\* holds an encoder can always return it, and when the pool is full the
\* return leaves the pool as it is and the encoder is discarded; the
\* encoders in the pool or held are never more than 10 + N.
PoolBounded ==
    /\ [](/\ Len(pool) <= PoolSlots
          /\ Cardinality(Held \cup Pooled) <= PoolSlots + NumCallers
          /\ \A c \in Callers :
               callers[c].pc = "holding" => ENABLED ReturnPooledEncoder(c))
    /\ [][\A c \in Callers :
            (Returns(c) /\ Len(pool) = PoolSlots)
            => /\ pool' = pool
               /\ callers[c].enc \notin Pooled
               /\ callers'[c].last # "pooled"]_vars

\* A goroutine has returned an encoder it made to the full pool, and the
\* pool holds the ten encoders it held.
PoolBoundedWitness ==
    /\ Len(pool) = PoolSlots
    /\ Len(encoders) = PoolSlots + 1
    /\ \E c \in Callers : callers[c].pc = "idle" /\ callers[c].last = "full"

\* C16: ReturnPooledEncoder puts an encoder whose buffer capacity is at
\* most 65,536 bytes in the pool when a slot is free, and discards an
\* encoder only when the capacity is above 65,536.
CeilingInclusive ==
    [][\A c \in Callers :
         Returns(c)
         => LET e == callers[c].enc
            IN  IF encoders[e].cap <= PoolCeiling /\ Len(pool) < PoolSlots
                THEN pool' = Append(pool, e)
                ELSE pool' = pool]_vars

\* C18: whatever the encoder held was used for before, by this goroutine
\* or by another, Encode returns the bytes a new encoder returns for the
\* same value, and no step makes the capacity of an encoder's buffer
\* smaller while the encoder is in use or in the pool.
EncoderReuse ==
    /\ [](\A c \in Callers :
            (callers[c].pc = "holding" /\ callers[c].value # Nil)
            => encoders[callers[c].enc].buf
                 = EncoderEncode(NewEncoder, callers[c].value))
    /\ [][\A e \in 1..Len(encoders) :
            encoders'[e] # Collected => encoders'[e].cap >= encoders[e].cap]_vars

\* A goroutine holds an encoder from the pool whose earlier output was
\* the 35 bytes of ["foo", ["bar", 42]] and has encoded the empty list
\* with it: the buffer holds the 9 bytes of the empty list.
EncoderReuseWitness ==
    \E c \in Callers :
       /\ callers[c].pc = "holding"
       /\ callers[c].value = DataValue(<<>>)
       /\ callers[c].enc = 1
       /\ Len(encoders) >= PoolSlots - 1
       /\ encoders[1] = [buf |-> <<5, 0, 0, 0, 3, 0, 0, 0, 0>>,
                         cap |-> DefaultCap]

RECURSIVE StringsOf(_)
RECURSIVE StringsOfItems(_, _)

\* The strings of the tree x, in the order of the wire format.
StringsOf(x) ==
    CASE x.kind = "string" -> <<x.s>>
      [] x.kind = "Data"   -> StringsOfItems(x.items, 1)
      [] OTHER             -> <<>>

StringsOfItems(items, i) ==
    IF i > Len(items) THEN <<>>
    ELSE StringsOf(items[i]) \o StringsOfItems(items, i + 1)

\* Decode has returned a tree, and the buffer may have been written to
\* since.
TreeReturned == d.pc = "done" /\ d.err = NoErr

\* C17: every string of a tree Decode has returned is a part of the
\* buffer: the part that starts right after the four bytes of the length
\* field of a string node, is as long as that field says and ends inside
\* the buffer; the parts of two strings do not overlap; and when a byte of
\* the buffer is overwritten after Decode, each string reads as its part
\* of the buffer reads now.
ZeroCopyViews ==
    TreeReturned
    => LET strs == StringsOf(d.ret)
       IN  /\ Len(d.views) = Len(strs)
           /\ \A i \in 1..Len(d.views) :
                LET v == d.views[i]
                IN  /\ v.off >= 14
                    /\ v.len >= 0
                    /\ v.off + v.len <= Len(d.data)
                    /\ stage = "decode"
                       => /\ d.data[v.off - 4] = 2
                          /\ d.data[v.off] < 128
                          /\ v.len = d.data[v.off - 3] + 256 * d.data[v.off - 2]
                                     + 65536 * d.data[v.off - 1]
                                     + 16777216 * d.data[v.off]
                    /\ strs[i] = SubSeq(d.data, v.off + 1, v.off + v.len)
           /\ \A i, j \in 1..Len(d.views) :
                i < j => d.views[i].off + d.views[i].len <= d.views[j].off

\* A byte inside the second string of a returned tree has been
\* overwritten, and the string reads as the byte written.
ZeroCopyViewsWitness ==
    /\ stage = "overwritten"
    /\ TreeReturned
    /\ Len(d.views) = 2
    /\ d.views[2].len = 2
    /\ StringsOf(d.ret)[2] = <<195, 88>>
    /\ StringsOf(value)[2] = <<195, 169>>

\* The Decode call of dd has ended.
Ended(dd) == dd.pc \in {"done", "panic"}

\* C19: no step of Decode changes the buffer, and two Decode calls on the
\* same buffer, by two Decoders whose steps interleave in any way or by
\* one Decoder twice, end alike: with the same tree or with the same
\* error, whatever cursor the first call left.
DecodeIndependent ==
    /\ [][/\ stage = "decode" => d'.data = d.data
          /\ d2.pc # "none" => d2'.data = d2.data]_vars
    /\ []((Ended(d) /\ Ended(d2))
          => /\ d2.data = d.data
             /\ d2.pc = d.pc
             /\ d2.ret = d.ret
             /\ d2.err = d.err)

\* Decode has been called a second time on a Decoder whose first call
\* left the cursor at the end of the buffer, and has returned the tree
\* again.
DecodeIndependentWitness ==
    /\ stage = "again"
    /\ d.pc = "done" /\ d.err = NoErr
    /\ d.offset = Len(d.data)
    /\ d.offset > 9
    /\ Ended(d2)
    /\ d2.ret = d.ret
    /\ d2.ret = value
    /\ d2.offset = d.offset

\* C20: Decode ends on every buffer: a decodeValue call returns an error
\* or leaves the cursor at least one byte further on, no step of Decode
\* moves the cursor back, and the tags read are never more than the bytes
\* after the header, also under a list header that declares 2^32 - 1
\* elements.
DecodeTerminates ==
    /\ [][/\ (stage = "decode" /\ d.pc # "Decode") => d'.offset >= d.offset
          /\ d.pc = "decodeValue"
             => \/ d'.pc = "done" /\ d'.err # NoErr
                \/ d'.offset > d.offset]_vars
    /\ [](d.nodes > 0 => d.nodes <= Len(d.data) - 4)
    /\ (stage = "decode") ~> Ended(d)

\* On a 64-bit build Decode has read a root list that declares 2^32 - 1
\* elements, has read the elements there are and has ended with an error
\* at the end of the buffer.
DecodeTerminatesWitness ==
    /\ intBits = 64
    /\ d.pc = "done"
    /\ Len(d.data) >= 9
    /\ SubSeq(d.data, 5, 9) = <<3, 255, 255, 255, 255>>
    /\ d.err = ErrUnexpectedEnd
    /\ d.nodes >= 3
    /\ d.offset = Len(d.data)

\* C21: with goroutines that take an encoder from the pool, encode,
\* return the encoder and then read what Encode returned, the bytes a
\* goroutine holds read as the encoding of its value, whatever the other
\* goroutines encode with encoders from the pool in the meantime.
OutputStable ==
    \A c \in Callers :
       (callers[c].pc = "idle" /\ callers[c].out # NoOutput)
       => callers[c].out.bytes
            = EncoderEncode(NewEncoder, callers[c].out.value)

\* C22: whatever the elements of a Data are, a plain int or nil among
\* them, Decode on the bytes Encode returned for it succeeds and returns
\* a list of as many elements as the Data has.
OutputWellFormed ==
    (stage = "decode" /\ d.data = encoded /\ Returned)
    => /\ d.err = NoErr
       /\ Len(d.ret.items) = Len(value.items)

RECURSIVE Encodable(_)

\* x is a value Encode has a case for at every level: int32, string, Data
\* and native slice.
Encodable(x) ==
    CASE x.kind \in {"int32", "string"} -> TRUE
      [] x.kind \in {"Data", "slice"} ->
           \A i \in 1..Len(x.items) : Encodable(x.items[i])
      [] OTHER -> FALSE

RECURSIVE AsDecoded(_)

\* The tree Decode is to return for x: every native slice is a Data.
AsDecoded(x) ==
    IF x.kind \in {"Data", "slice"}
    THEN DataValue([i \in 1..Len(x.items) |-> AsDecoded(x.items[i])])
    ELSE x

\* The values DeepEqual is compared on: the encodable Data of at most one
\* element.
Comparands ==
    { v \in { DataValue(<<>>) } \cup { DataValue(<<x>>) : x \in AnyItems } :
        Encodable(v) }

\* C23: on the values Encode has a case for, DeepEqual is reflexive,
\* symmetric and transitive, holds exactly between values that are the
\* same tree once every native slice is read as the Data Decode returns
\* for it (so not between values of different kinds or orders), and
\* holds between a value and what Decode returns for its encoding.
DeepEqualIsEquivalence ==
    Encodable(value)
    => /\ DeepEqual(value.items, value.items)
       /\ \A b \in Comparands :
            /\ DeepEqual(value.items, b.items) = DeepEqual(b.items, value.items)
            /\ DeepEqual(value.items, b.items)
                 = (AsDecoded(value) = AsDecoded(b))
            /\ \A c \in Comparands :
                 (DeepEqual(value.items, b.items) /\ DeepEqual(b.items, c.items))
                 => DeepEqual(value.items, c.items)
       /\ (stage = "decode" /\ d.data = encoded /\ Succeeded)
          => DeepEqual(value.items, d.ret.items)

\* The decoder is about to decode a string node whose four length bytes
\* are present.
AtStringNode ==
    /\ d.pc = "decodeValue"
    /\ d.offset + 5 <= Len(d.data)
    /\ d.data[d.offset + 1] = TypeString

\* The length field of that node, as the number in 0..2^32-1 it stands
\* for, is more than the bytes that follow it.
StringLengthExceeds ==
    LET at == d.offset + 1
    IN  \/ d.data[at + 4] >= 128
        \/ d.data[at + 1] + 256 * d.data[at + 2] + 65536 * d.data[at + 3]
             + 16777216 * d.data[at + 4] > Len(d.data) - (d.offset + 5)

\* C24: at either width of int, a header that differs from the bytes
\* present is refused with the length-mismatch error, a string length
\* that exceeds the bytes present is refused with the string-content
\* error, and no length reaches the slice expression of the string case
\* with a bound out of range.
LengthsNeverWrap ==
    /\ (d.pc = "Decode" /\ Len(d.data) >= 4 /\ ~HeaderFits(d.data))
       => DecodeEntry(d, intBits) = Fail(d, ErrLengthMismatch)
    /\ (AtStringNode /\ StringLengthExceeds)
       => /\ decodeValue(d, intBits).pc = "done"
          /\ decodeValue(d, intBits).err = ErrStringContent
    /\ d.err # PanicSlice

====
